---- MODULE Spec2Model ----
(***************************************************************************)
(* aejo (AJV + Express.js + JSON Schema + OAS 3.x API builder).            *)
(*                                                                         *)
(* Four specifications over src/src/lib/index.ts:                          *)
(*   Spec       one operation is built (Method / AsyncMethod), decorated   *)
(*              (AuthPathOp), registered (Route, mapRouter) and then       *)
(*              serves requests through its handler chain;                 *)
(*   SpecPaths  Paths aggregates the path items of controllers             *)
(*              (Controller, Route, Paths);                                *)
(*   SpecCalls  the builders that are pure functions, each called on       *)
(*              inputs drawn from bounded sets;                            *)
(*   SpecShared concurrent requests on one compiled validator.             *)
(***************************************************************************)
EXTENDS Integers, Sequences, FiniteSets, TLC

VARIABLES
    phase,      \* Spec: "build", "routed", "crashed", "request" ("idle" in SpecPaths)
    pop,        \* Spec: the PathObject under construction, [method, op]
    attached,   \* Spec: history of the bindings AuthPathOp was applied with
    chain,      \* Spec: the handler list registered with the router
    req,        \* Spec: the request being served
    pending,    \* Spec: continuations (next signals) not yet dispatched
    log,        \* Spec: one event per handler invocation of this request
    errChannel, \* Spec: errors delivered to the terminal error handler
    acc,        \* SpecPaths: the reduce accumulator of Paths, [out, track]
    warned,     \* SpecPaths: console.warn lines, in order
    mounts,     \* SpecPaths: app.use(prefix, router) calls, in order
    contrib,    \* SpecPaths: history, one record per path item handled
    pstate,     \* SpecPaths: "running", "returned", "thrown" ("idle" in Spec)
    call,       \* SpecCalls: the last call of a builder, [fn, arg, ret]
    shared      \* SpecShared: one compiled validator and the requests on it

chainVars == <<phase, pop, attached, chain, req, pending, log, errChannel>>
pathVars == <<acc, warned, mounts, contrib, pstate>>
vars == <<phase, pop, attached, chain, req, pending, log, errChannel,
          acc, warned, mounts, contrib, pstate, call, shared>>

----------------------------------------------------------------------------
(* Bounds of the model.                                                    *)

MaxAuth == 2        \* AuthPathOp applications to one operation
MaxMiddleware == 2  \* application handlers of one operation
MaxItems == 3       \* path items aggregated by one Paths call
MaxTemplate == 5    \* characters of a path template (SpecCalls)
MaxParams == 3      \* parameters of one parameter list (SpecCalls)
MaxConcurrent == 2  \* requests in flight on one validator (SpecShared)
MaxOps == 3         \* path objects given to one Path call (SpecCalls)
MaxRoute == 2       \* path items given to one Route call (SpecCalls)

----------------------------------------------------------------------------
(* Generic helpers.                                                        *)

RECURSIVE Concat(_)
Concat(ss) == IF ss = <<>> THEN <<>> ELSE Head(ss) \o Concat(Tail(ss))

\* { ...a, ...b }: the keys of b win.
Spread(a, b) ==
    [k \in (DOMAIN a) \cup (DOMAIN b) |-> IF k \in DOMAIN b THEN b[k] ELSE a[k]]

EmptyObj == [k \in {} |-> ""]

\* No builder has been called.
NoCall == [fn |-> "", arg |-> <<>>, ret |-> <<>>]

\* A compiled validator before its first call (valid.errors is null) and
\* no request on it.
NoShared == [errors |-> <<>>, reqs |-> <<>>]

----------------------------------------------------------------------------
(* Values, schemas and the validation engine (ajv = new Ajv()).            *)

\* A request sub-object: a JSON object (name -> JSON literal) or undefined.
Obj(f) == [def |-> TRUE, val |-> f]
Undefined == [def |-> FALSE, val |-> EmptyObj]

\* JSON literals: the strings "5" and "foo", the numbers 5 and 0.
StrFive == "\"5\""
StrFoo == "\"foo\""
NumFive == "5"
NumZero == "0"
IsNumber(v) == v \in {NumFive, NumZero}
NumberOf(v) == IF v = NumFive THEN 5 ELSE 0

\* Parameter schemas: {type: 'integer', minimum: 1} and {type: 'string'}.
IntegerMin1 == [type |-> "integer", minimum |-> 1]
StringSchema == [type |-> "string", minimum |-> 0]

\* The options of the engine instance: new Ajv() coerces nothing and
\* stops at the first error.
AjvOptions == [coerceTypes |-> FALSE, allErrors |-> FALSE]

\* String -> integer coercion of the engine (only under coerceTypes).
Coerce(s, v) ==
    IF AjvOptions.coerceTypes /\ s.type = "integer" /\ v = StrFive
    THEN NumFive ELSE v

\* The errors of one property value against its schema.
PropertyErrors(name, s, v0) ==
    LET v == Coerce(s, v0) IN
    IF s.type = "integer"
    THEN IF ~IsNumber(v) THEN <<[path |-> name, keyword |-> "type"]>>
         ELSE IF NumberOf(v) < s.minimum
              THEN <<[path |-> name, keyword |-> "minimum"]>>
              ELSE <<>>
    ELSE IF IsNumber(v) THEN <<[path |-> name, keyword |-> "type"]>>
         ELSE <<>>

RECURSIVE ErrorsOver(_, _, _)
ErrorsOver(names, schema, data) ==
    IF names = <<>> THEN <<>>
    ELSE LET n == Head(names) IN
         (IF n \in DOMAIN data.val
          THEN PropertyErrors(n, schema.properties[n], data.val[n])
          ELSE <<>>) \o ErrorsOver(Tail(names), schema, data)

RECURSIVE MissingOver(_, _)
MissingOver(names, data) ==
    IF names = <<>> THEN <<>>
    ELSE (IF Head(names) \in DOMAIN data.val THEN <<>>
          ELSE <<[path |-> Head(names), keyword |-> "required"]>>)
         \o MissingOver(Tail(names), data)

\* All errors of data against an object schema, in the engine's order.
AllErrors(schema, data) ==
    IF ~data.def THEN <<[path |-> "", keyword |-> "type"]>>
    ELSE MissingOver(schema.required, data)
         \o ErrorsOver(schema.order, schema, data)

\* valid.errors after valid(data): null is the empty list.
AjvErrors(schema, data) ==
    LET all == AllErrors(schema, data) IN
    IF all = <<>> \/ AjvOptions.allErrors THEN all ELSE <<Head(all)>>

\* The data as the engine leaves it (changed only under coerceTypes).
AjvData(schema, data) ==
    IF ~data.def THEN data
    ELSE Obj([n \in DOMAIN data.val |->
                IF n \in DOMAIN schema.properties
                THEN Coerce(schema.properties[n], data.val[n])
                ELSE data.val[n]])

\* valid(data) of a compiled validator.
AjvValid(schema, data) == AjvErrors(schema, data) = <<>>

----------------------------------------------------------------------------
(* Parameters and the validators compiled from them.                       *)

\* Mutant of Param: the location tag is 'query' whatever pin is.
ParamStampsQuery(pin, param) == Spread([in |-> "query"], param)

\* Param(pin)(param): { in: pin, ...param }, a new object in which the
\* keys of the descriptor win.
Param(pin, param) == Spread([in |-> pin], param)

QueryParam(param) == Param("query", param)
PathParam(param) == Param("path", param)

NoSchema == [type |-> "none", properties |-> EmptyObj, order |-> <<>>,
             required |-> <<>>]

\* validateParams: one property per parameter name (a later parameter of
\* the same name replaces the schema and keeps the key's position), and the
\* names marked required: true pushed in order.
RECURSIVE validateParamsFrom(_, _)
validateParamsFrom(acc0, p) ==
    IF p = <<>> THEN acc0
    ELSE LET s == Head(p)
             next == [type |-> "object",
                      properties |-> Spread(acc0.properties,
                                            [n \in {s.name} |-> s.schema]),
                      order |-> IF s.name \in DOMAIN acc0.properties
                                THEN acc0.order
                                ELSE Append(acc0.order, s.name),
                      required |-> IF s.required = TRUE
                                   THEN Append(acc0.required, s.name)
                                   ELSE acc0.required]
         IN validateParamsFrom(next, Tail(p))

\* Mutant of validateParams: no name is pushed on the required list.
validateParamsNoRequired(p) ==
    [validateParamsFrom([type |-> "object", properties |-> EmptyObj,
                         order |-> <<>>, required |-> <<>>], p)
        EXCEPT !.required = <<>>]

validateParams(p) ==
    validateParamsFrom([type |-> "object", properties |-> EmptyObj,
                        order |-> <<>>, required |-> <<>>], p)

\* inMap = { path: 'params', query: 'query' }; any other location reads
\* inMap[p.in] as undefined, the object key "undefined".
inMap(pin) ==
    IF pin = "path" THEN "params"
    ELSE IF pin = "query" THEN "query" ELSE "undefined"

\* groupByParamIn: keys in insertion order, each with its parameters.
RECURSIVE groupByParamInFrom(_, _)
groupByParamInFrom(group, params) ==
    IF params = <<>> THEN group
    ELSE LET p == Head(params)
             m == inMap(p.in)
             g == IF m \in DOMAIN group.of THEN group
                  ELSE [keys |-> Append(group.keys, m),
                        of |-> Spread(group.of, [k \in {m} |-> <<>>])]
         IN groupByParamInFrom(
                [keys |-> g.keys,
                 of |-> [g.of EXCEPT ![m] = Append(g.of[m], p)]],
                Tail(params))

groupByParamIn(params) ==
    groupByParamInFrom([keys |-> <<>>, of |-> [k \in {} |-> <<>>]], params)

----------------------------------------------------------------------------
(* Handlers. Every handler the chain can hold is one record.               *)

Handler(kind, name, scopes, whereIn, schema) ==
    [kind |-> kind, name |-> name, scopes |-> scopes, whereIn |-> whereIn,
     schema |-> schema, wraps |-> 0]

\* validateHandler(valid, whereIn): the closure over a compiled validator.
validateHandler(valid, whereIn) ==
    Handler("validate", "", <<>>, whereIn, valid)

\* ScopeWrapper(cb, scopes): the gate over fallback cb and check handlers.
ScopeWrapper(cb, scopes) == Handler("gate", cb, scopes, "", NoSchema)

\* A user-supplied handler: security.before or application middleware.
BeforeHandler(name) == Handler("before", name, <<>>, "", NoSchema)
AppHandler(name) == Handler("app", name, <<>>, "", NoSchema)

\* validateBuilder(ajv)(s).handlers: one handler per key of the grouping.
RECURSIVE validateBuilderFrom(_, _)
validateBuilderFrom(keys, pIns) ==
    IF keys = <<>> THEN <<>>
    ELSE <<validateHandler(validateParams(pIns.of[Head(keys)]), Head(keys))>>
         \o validateBuilderFrom(Tail(keys), pIns)

validate(s) ==
    LET pIns == groupByParamIn(s) IN
    [handlers |-> validateBuilderFrom(pIns.keys, pIns),
     schema |-> [k \in DOMAIN pIns.of |-> validateParams(pIns.of[k])]]

----------------------------------------------------------------------------
(* Security descriptors, Scope and AuthPathOp.                             *)

ScopeNames == {"admin", "transport"}

\* Two Security descriptors: "auth" as in the tests, "key" with a
\* pre-handler; both declare a "400" failure response.
SecAuth == [name |-> "auth", before |-> FALSE, handler |-> "authDenied",
            responses |-> [c \in {"400"} |-> "Not auth"]]
SecKey == [name |-> "key", before |-> TRUE, handler |-> "keyDenied",
           responses |-> [c \in {"400", "401"} |-> "No key"]]

\* Mutant of Scope: the gate is put ahead of the pre-handler.
ScopeGateFirst(security, scopes) ==
    [auth |-> security.name,
     scopes |-> scopes,
     middleware |->
        <<ScopeWrapper(security.handler, scopes)>>
        \o (IF security.before THEN <<BeforeHandler(security.name)>> ELSE <<>>),
     responses |-> security.responses]

\* Scope(security, ...scopes): the check handler of scope s is named s.
Scope(security, scopes) ==
    [auth |-> security.name,
     scopes |-> scopes,
     middleware |->
        (IF security.before THEN <<BeforeHandler(security.name)>> ELSE <<>>)
        \o <<ScopeWrapper(security.handler, scopes)>>,
     responses |-> security.responses]

Bindings ==
    {Scope(SecAuth, <<"admin", "transport">>),
     Scope(SecKey, <<"admin">>),
     Scope(SecAuth, <<>>)}

\* Mutant of AuthPathOp: on a status-code collision the response the
\* operation already declares is kept.
AuthPathOpKeepsDeclared(scope, po) ==
    [method |-> po.method,
     op |-> [po.op EXCEPT
               !.security = <<[auth |-> scope.auth, scopes |-> scope.scopes]>>,
               !.scope = <<scope>>,
               !.responses = Spread(scope.responses, po.op.responses)]]

\* Mutant of AuthPathOp: the security entry is appended to the list.
AuthPathOpAppends(scope, po) ==
    [method |-> po.method,
     op |-> [po.op EXCEPT
               !.security = Append(po.op.security,
                              [auth |-> scope.auth, scopes |-> scope.scopes]),
               !.scope = <<scope>>,
               !.responses = Spread(po.op.responses, scope.responses)]]

\* Mutant of AuthPathOp: the handlers of the binding are also put at the
\* front of the operation's middleware.
AuthPathOpPushesMiddleware(scope, po) ==
    [method |-> po.method,
     op |-> [po.op EXCEPT
               !.security = <<[auth |-> scope.auth, scopes |-> scope.scopes]>>,
               !.scope = <<scope>>,
               !.responses = Spread(po.op.responses, scope.responses),
               !.middleware = scope.middleware \o @]]

\* AuthPathOp(scope)(pop): security, scope and responses of the operation
\* are assigned; the path object keeps its single method.
AuthPathOp(scope, po) ==
    [method |-> po.method,
     op |-> [po.op EXCEPT
               !.security = <<[auth |-> scope.auth, scopes |-> scope.scopes]>>,
               !.scope = <<scope>>,
               !.responses = Spread(po.op.responses, scope.responses)]]

----------------------------------------------------------------------------
(* Operations: Method, AsyncMethod, and the inputs of Spec.                *)

\* requestBody: absent, or a MediaSchema whose content may be absent.
NoBody == [present |-> FALSE, hasContent |-> FALSE,
           content |-> [t \in {} |-> NoSchema]]

BodySchema == [type |-> "object",
               properties |-> [n \in {"name"} |-> StringSchema],
               order |-> <<"name">>, required |-> <<"name">>]

JsonBody == [present |-> TRUE, hasContent |-> TRUE,
             content |-> [t \in {"application/json"} |-> BodySchema]]
TextBody == [present |-> TRUE, hasContent |-> TRUE,
             content |-> [t \in {"text/plain"} |-> BodySchema]]
BareBody == [present |-> TRUE, hasContent |-> FALSE,
             content |-> [t \in {} |-> NoSchema]]

RequestBodies == {NoBody, JsonBody, TextBody, BareBody}

LimitParam == QueryParam([name |-> "limit", required |-> FALSE,
                          schema |-> IntegerMin1])
IdParam == PathParam([name |-> "id", required |-> TRUE,
                      schema |-> StringSchema])

\* A second query parameter, named as the path parameter.
QueryIdParam == QueryParam([name |-> "id", required |-> FALSE,
                            schema |-> StringSchema])

\* A parameter located in the body (ParamIn is "query" | "path" | "body").
NameParam == Param("body", [name |-> "name", required |-> FALSE,
                            schema |-> StringSchema])

ParameterLists ==
    {<<>>, <<LimitParam>>, <<LimitParam, QueryIdParam, IdParam>>,
     <<NameParam>>}

MiddlewareLists ==
    {[i \in 1..n |-> AppHandler(IF i = 1 THEN "h1" ELSE IF i = 2 THEN "h2"
                                ELSE "h3")] : n \in 1..MaxMiddleware}

Operations ==
    [tags : {<<"test">>}, description : {"an operation"},
     parameters : ParameterLists,
     requestBody : RequestBodies, responses : {[c \in {"200"} |-> "ok"]},
     security : {<<>>}, scope : {<<>>}, wrapper : {"none"},
     middleware : MiddlewareLists]

\* Method(m)(pop)
Method(m, o) == [method |-> m, op |-> o]

\* AsyncMethod(m, wrapper)(pop): { wrapper, ...pop }
AsyncMethod(m, wrapper, o) ==
    [method |-> m,
     op |-> [o EXCEPT !.wrapper = IF o.wrapper = "none" THEN wrapper
                                  ELSE o.wrapper]]

Get(o) == Method("get", o)
Post(o) == Method("post", o)
AsyncGet(o) == AsyncMethod("get", "AsyncWrapper", o)
AsyncPost(o) == AsyncMethod("post", "AsyncWrapper", o)

----------------------------------------------------------------------------
(* Route / mapRouter: the handler chain of one operation.                  *)

\* Mutant of Wrap: the wrapper is applied to its own result.
WrapTwice(w, h) == IF w = "none" THEN h ELSE [h EXCEPT !.wraps = @ + 2]

\* wrapper(cb): the identity, or the operation's wrapper around cb.
Wrap(w, h) == IF w = "none" THEN h ELSE [h EXCEPT !.wraps = @ + 1]

RECURSIVE PushAll(_, _, _)
PushAll(middle, hs, w) ==
    IF hs = <<>> THEN middle
    ELSE PushAll(Append(middle, Wrap(w, Head(hs))), Tail(hs), w)

RECURSIVE PushScopes(_, _, _)
PushScopes(middle, scopes, w) ==
    IF scopes = <<>> THEN middle
    ELSE PushScopes(PushAll(middle, Head(scopes).middleware, w),
                    Tail(scopes), w)

\* Mutant of mapRouter: one validator is compiled per parameter.
mapRouterPerParameter(pathOp) ==
    LET w == pathOp.wrapper
        m1 == PushScopes(<<>>, pathOp.scope, w)
        threw == pathOp.requestBody.present
                 /\ ~pathOp.requestBody.hasContent
        json == pathOp.requestBody.present
                /\ "application/json" \in DOMAIN pathOp.requestBody.content
        m2 == IF json
              THEN PushAll(m1,
                     <<validateHandler(
                         pathOp.requestBody.content["application/json"],
                         "body")>>, w)
              ELSE m1
        m3 == PushAll(m2,
                Concat([i \in DOMAIN pathOp.parameters |->
                          validate(<<pathOp.parameters[i]>>).handlers]), w)
        m4 == PushAll(m3, pathOp.middleware, w)
    IN [threw |-> threw, middle |-> IF threw THEN <<>> ELSE m4]

\* Mutant of mapRouter: the parameter validators are pushed before the
\* body validator.
mapRouterParamsFirst(pathOp) ==
    LET w == pathOp.wrapper
        m1 == PushScopes(<<>>, pathOp.scope, w)
        threw == pathOp.requestBody.present
                 /\ ~pathOp.requestBody.hasContent
        json == pathOp.requestBody.present
                /\ "application/json" \in DOMAIN pathOp.requestBody.content
        m2 == PushAll(m1, validate(pathOp.parameters).handlers, w)
        m3 == IF json
              THEN PushAll(m2,
                     <<validateHandler(
                         pathOp.requestBody.content["application/json"],
                         "body")>>, w)
              ELSE m2
        m4 == PushAll(m3, pathOp.middleware, w)
    IN [threw |-> threw, middle |-> IF threw THEN <<>> ELSE m4]

\* mapRouter: threw is the TypeError of reading content['application/json']
\* of a request body that has no content.
mapRouter(pathOp) ==
    LET w == pathOp.wrapper
        m1 == PushScopes(<<>>, pathOp.scope, w)
        threw == pathOp.requestBody.present
                 /\ ~pathOp.requestBody.hasContent
        json == pathOp.requestBody.present
                /\ "application/json" \in DOMAIN pathOp.requestBody.content
        m2 == IF json
              THEN PushAll(m1,
                     <<validateHandler(
                         pathOp.requestBody.content["application/json"],
                         "body")>>, w)
              ELSE m1
        m3 == PushAll(m2, validate(pathOp.parameters).handlers, w)
        m4 == PushAll(m3, pathOp.middleware, w)
    IN [threw |-> threw, middle |-> IF threw THEN <<>> ELSE m4]

----------------------------------------------------------------------------
(* Errors.                                                                 *)

NoError == [name |-> "", message |-> "", context |-> <<>>]

\* new ValidationError(message, context)
ValidationError(message, context) ==
    [name |-> "ValidationError", message |-> message, context |-> context]

\* A failure raised by user-supplied middleware.
AppError == [name |-> "Error", message |-> "application", context |-> <<>>]

----------------------------------------------------------------------------
(* Requests and the per-request behaviour of each handler.                 *)

QueryValues ==
    {Obj(EmptyObj), Obj([n \in {"limit"} |-> StrFive]),
     Obj([n \in {"limit"} |-> StrFoo])}
ParamsValues == {Obj(EmptyObj), Obj([n \in {"id"} |-> StrFive])}
BodyValues == {Undefined, Obj([n \in {"name"} |-> StrFoo])}

\* auth[s]: what the check handler of scope s returns for this request.
Requests ==
    [query : QueryValues, params : ParamsValues, body : BodyValues,
     auth : [ScopeNames -> BOOLEAN]]

NoRequest ==
    [query |-> Undefined, params |-> Undefined, body |-> Undefined,
     auth |-> [s \in ScopeNames |-> FALSE]]

\* req[whereIn]
ReqField(r, whereIn) ==
    IF whereIn \in {"query", "params", "body"} THEN r[whereIn] ELSE Undefined

\* What a user-supplied handler does with the request.
Behaviours == {"next", "respond", "throw"}

\* An application handler can also call next and fail afterwards.
AppBehaviours == Behaviours \cup {"nextThrow"}

\* The result of one handler call: the next signals it made, in order (each
\* NoError or an error), what it threw, the request as it leaves it, and
\* the event recorded for it.
Result(nexts, thrown, r, ev) ==
    [nexts |-> nexts, thrown |-> thrown, req |-> r, ev |-> ev]

\* own: next() calls made by the library handler itself; fallback: calls of
\* the fallback handler; checked: the scope checks evaluated; user: what the
\* user-supplied code did; thrown: what the handler threw. The runtime fills
\* in the request before and after, and the next signals it observed.
Event(h, own, fallback, checked, user, thrown) ==
    [h |-> h, own |-> own, fallback |-> fallback, checked |-> checked,
     user |-> user, thrown |-> thrown, reqIn |-> NoRequest,
     reqOut |-> NoRequest, signals |-> <<>>]

\* Mutant of validateHandlerCall: a failed validation is not thrown and
\* next is called all the same.
validateHandlerCallNoThrow(h, r) ==
    Result(<<NoError>>, NoError, r, Event(h, 1, 0, <<>>, "", NoError))

\* The body of the handler validateHandler returns.
validateHandlerCall(h, r) ==
    LET data == ReqField(r, h.whereIn)
        after == IF h.whereIn \in {"query", "params", "body"}
                 THEN [r EXCEPT ![h.whereIn] = AjvData(h.schema, data)]
                 ELSE r
    IN IF ~AjvValid(h.schema, data)
       THEN LET e == ValidationError("AejoValidationError",
                                     AjvErrors(h.schema, data))
            IN Result(<<>>, e, after, Event(h, 0, 0, <<>>, "", e))
       ELSE Result(<<NoError>>, NoError, after,
                   Event(h, 1, 0, <<>>, "", NoError))

\* scopes.some(v => v(req, res, next)): the checks evaluated, in order, up
\* to and including the first that returns true.
RECURSIVE SomeChecked(_, _)
SomeChecked(scopes, r) ==
    IF scopes = <<>> THEN <<>>
    ELSE IF r.auth[Head(scopes)] THEN <<Head(scopes)>>
         ELSE <<Head(scopes)>> \o SomeChecked(Tail(scopes), r)

\* Mutant of ScopeWrapperCall: scopes.every in place of scopes.some.
ScopeWrapperCallEvery(h, r, fb) ==
    IF \A i \in DOMAIN h.scopes : r.auth[h.scopes[i]]
    THEN Result(<<NoError>>, NoError, r,
                Event(h, 1, 0, h.scopes, "", NoError))
    ELSE Result(IF fb = "next" THEN <<NoError>> ELSE <<>>,
                IF fb = "throw" THEN AppError ELSE NoError, r,
                Event(h, 0, 1, h.scopes, fb,
                      IF fb = "throw" THEN AppError ELSE NoError))

\* Mutant of ScopeWrapperCall: no return after next(), so the fallback
\* handler is called for an authorized request as well.
ScopeWrapperCallNoReturn(h, r, fb) ==
    LET checked == SomeChecked(h.scopes, r)
        some == checked # <<>> /\ r.auth[checked[Len(checked)]]
    IN Result((IF some THEN <<NoError>> ELSE <<>>)
              \o (IF fb = "next" THEN <<NoError>> ELSE <<>>),
              IF fb = "throw" THEN AppError ELSE NoError, r,
              Event(h, IF some THEN 1 ELSE 0, 1, checked, fb,
                    IF fb = "throw" THEN AppError ELSE NoError))

\* Mutant of ScopeWrapperCall: after the fallback handler the gate calls
\* next itself.
ScopeWrapperCallDeniedNext(h, r, fb) ==
    LET checked == SomeChecked(h.scopes, r)
        some == checked # <<>> /\ r.auth[checked[Len(checked)]]
    IN IF some
       THEN Result(<<NoError>>, NoError, r,
                   Event(h, 1, 0, checked, "", NoError))
       ELSE Result(<<NoError>>,
                   IF fb = "throw" THEN AppError ELSE NoError, r,
                   Event(h, 1, 1, checked, fb,
                         IF fb = "throw" THEN AppError ELSE NoError))

\* Mutant of ScopeWrapperCall: a gate with no check handler lets every
\* request through.
ScopeWrapperCallEmptyPasses(h, r, fb) ==
    LET checked == SomeChecked(h.scopes, r)
        some == checked = <<>> \/ r.auth[checked[Len(checked)]]
    IN IF some
       THEN Result(<<NoError>>, NoError, r,
                   Event(h, 1, 0, checked, "", NoError))
       ELSE Result(IF fb = "next" THEN <<NoError>> ELSE <<>>,
                   IF fb = "throw" THEN AppError ELSE NoError, r,
                   Event(h, 0, 1, checked, fb,
                         IF fb = "throw" THEN AppError ELSE NoError))

\* The body of the handler ScopeWrapper returns; fb is what the fallback
\* handler cb does when it is called.
ScopeWrapperCall(h, r, fb) ==
    LET checked == SomeChecked(h.scopes, r)
        some == checked # <<>> /\ r.auth[checked[Len(checked)]]
    IN IF some
       THEN Result(<<NoError>>, NoError, r,
                   Event(h, 1, 0, checked, "", NoError))
       ELSE Result(IF fb = "next" THEN <<NoError>> ELSE <<>>,
                   IF fb = "throw" THEN AppError ELSE NoError, r,
                   Event(h, 0, 1, checked, fb,
                         IF fb = "throw" THEN AppError ELSE NoError))

\* A user-supplied handler (security.before, application middleware).
UserCall(h, r, b) ==
    Result(IF b \in {"next", "nextThrow"} THEN <<NoError>> ELSE <<>>,
           IF b \in {"throw", "nextThrow"} THEN AppError ELSE NoError, r,
           Event(h, 0, 0, <<>>, b,
                 IF b \in {"throw", "nextThrow"} THEN AppError ELSE NoError))

\* Mutant of AsyncWrapper: the caught failure is dropped.
AsyncWrapperSwallow(res) == [res EXCEPT !.thrown = NoError]

\* Mutant of AsyncWrapper: the caught failure is forwarded and thrown again.
AsyncWrapperRethrow(res) ==
    IF res.thrown # NoError
    THEN [res EXCEPT !.nexts = Append(res.nexts, res.thrown)]
    ELSE res

\* AsyncWrapper(cb): try { await cb(req, res, next) } catch (e) { next(e) }
AsyncWrapper(res) ==
    IF res.thrown # NoError
    THEN [res EXCEPT !.nexts = Append(res.nexts, res.thrown),
                     !.thrown = NoError]
    ELSE res

\* The handler as registered: the wrapper around it, if any.
Registered(h, res) == IF h.wraps > 0 THEN AsyncWrapper(res) ELSE res

\* The routing runtime: every next signal of step at continues at at + 1,
\* and a synchronous throw is taken as next(err).
Continuations(at, res) ==
    LET sig == res.nexts
               \o (IF res.thrown # NoError THEN <<res.thrown>> ELSE <<>>)
    IN [i \in 1..Len(sig) |-> [at |-> at + 1, err |-> sig[i]]]

----------------------------------------------------------------------------
(* Spec: build, decorate, register, serve.                                 *)

IdlePaths ==
    /\ acc = [out |-> <<>>, track |-> {}]
    /\ warned = <<>>
    /\ mounts = <<>>
    /\ contrib = <<>>
    /\ pstate = "idle"
    /\ call = NoCall
    /\ shared = NoShared

Init ==
    /\ phase = "build"
    /\ pop \in {Get(o) : o \in Operations} \cup {AsyncPost(o) : o \in Operations}
    /\ attached = <<>>
    /\ chain = <<>>
    /\ req = NoRequest
    /\ pending = <<>>
    /\ log = <<>>
    /\ errChannel = <<>>
    /\ IdlePaths

\* AuthPathOp(b)(pop)
Decorate ==
    /\ phase = "build"
    /\ Len(attached) < MaxAuth
    /\ \E b \in Bindings :
         /\ pop' = AuthPathOp(b, pop)
         /\ attached' = Append(attached, b)
    /\ UNCHANGED <<phase, chain, req, pending, log, errChannel>>
    /\ UNCHANGED <<pathVars, call, shared>>

\* Route(router, Path(path, pop)): mapRouter registers the chain or throws.
Register ==
    /\ phase = "build"
    /\ LET r == mapRouter(pop.op) IN
         /\ phase' = IF r.threw THEN "crashed" ELSE "routed"
         /\ chain' = r.middle
    /\ UNCHANGED <<pop, attached, req, pending, log, errChannel>>
    /\ UNCHANGED <<pathVars, call, shared>>

\* A request for the registered (method, path) enters the chain.
Receive ==
    /\ phase = "routed"
    /\ \E r \in Requests : req' = r
    /\ pending' = <<[at |-> 1, err |-> NoError]>>
    /\ log' = <<>>
    /\ errChannel' = <<>>
    /\ phase' = "request"
    /\ UNCHANGED <<pop, attached, chain>>
    /\ UNCHANGED <<pathVars, call, shared>>

\* The runtime calls the handler at the head continuation.
Invoke(kind, res) ==
    /\ phase = "request"
    /\ pending # <<>>
    /\ Head(pending).err = NoError
    /\ Head(pending).at <= Len(chain)
    /\ chain[Head(pending).at].kind = kind
    /\ LET at == Head(pending).at
           out == Registered(chain[at], res)
       IN /\ pending' = Continuations(at, out) \o Tail(pending)
          /\ log' = Append(log,
                      [res.ev EXCEPT !.h = chain[at], !.reqIn = req,
                                     !.reqOut = res.req,
                                     !.signals = [i \in 1..Len(Continuations(at, out))
                                                   |-> Continuations(at, out)[i].err]])
          /\ req' = res.req
    /\ UNCHANGED <<phase, pop, attached, chain, errChannel>>
    /\ UNCHANGED <<pathVars, call, shared>>

Current == chain[Head(pending).at]

RunValidator ==
    /\ pending # <<>> /\ Head(pending).at <= Len(chain)
    /\ Invoke("validate", validateHandlerCall(Current, req))

RunGate ==
    /\ pending # <<>> /\ Head(pending).at <= Len(chain)
    /\ \E fb \in Behaviours : Invoke("gate", ScopeWrapperCall(Current, req, fb))

RunBefore ==
    /\ pending # <<>> /\ Head(pending).at <= Len(chain)
    /\ \E b \in Behaviours : Invoke("before", UserCall(Current, req, b))

RunApp ==
    /\ pending # <<>> /\ Head(pending).at <= Len(chain)
    /\ \E b \in AppBehaviours : Invoke("app", UserCall(Current, req, b))

\* next(err): the rest of the chain is skipped and the error reaches the
\* terminal error handler.
ErrorHandler ==
    /\ phase = "request"
    /\ pending # <<>>
    /\ Head(pending).err # NoError
    /\ errChannel' = Append(errChannel, Head(pending).err)
    /\ pending' = Tail(pending)
    /\ UNCHANGED <<phase, pop, attached, chain, req, log>>
    /\ UNCHANGED <<pathVars, call, shared>>

\* next() of the last handler: the request leaves the chain.
FallThrough ==
    /\ phase = "request"
    /\ pending # <<>>
    /\ Head(pending).err = NoError
    /\ Head(pending).at > Len(chain)
    /\ pending' = Tail(pending)
    /\ UNCHANGED <<phase, pop, attached, chain, req, log, errChannel>>
    /\ UNCHANGED <<pathVars, call, shared>>

\* Nothing is left to run for this request; the router serves the next.
Complete ==
    /\ phase = "request"
    /\ pending = <<>>
    /\ phase' = "routed"
    /\ req' = NoRequest
    /\ log' = <<>>
    /\ errChannel' = <<>>
    /\ UNCHANGED <<pop, attached, chain, pending>>
    /\ UNCHANGED <<pathVars, call, shared>>

Next ==
    \/ Decorate
    \/ Register
    \/ Receive
    \/ RunValidator
    \/ RunGate
    \/ RunBefore
    \/ RunApp
    \/ ErrorHandler
    \/ FallThrough
    \/ Complete

Spec == Init /\ [][Next]_vars

----------------------------------------------------------------------------
(* Claims on the handler chain (Spec).                                     *)

Unwrapped(h) == [h EXCEPT !.wraps = 0]

Registration == phase \in {"routed", "request"}

DeclaresJson(op) ==
    /\ op.requestBody.present
    /\ op.requestBody.hasContent
    /\ "application/json" \in DOMAIN op.requestBody.content

GateHandlers(op) ==
    Concat([i \in 1..Len(op.scope) |-> op.scope[i].middleware])

ParamLocations(op) == {op.parameters[i].in : i \in DOMAIN op.parameters}

GateEvents == {i \in DOMAIN log : log[i].h.kind = "gate"}
ValidateEvents == {i \in DOMAIN log : log[i].h.kind = "validate"}
AppEvents == {i \in DOMAIN log : log[i].h.kind = "app"}

Authorized(e) == \E i \in DOMAIN e.h.scopes : e.reqIn.auth[e.h.scopes[i]]

\* C2: a gate calls next if and only if at least one requested scope check
\* returns true for the request (OR semantics).
C2_GateOr ==
    \A i \in GateEvents :
        /\ (log[i].own = 1) <=> Authorized(log[i])
        /\ log[i].own = 1 => log[i].signals = <<NoError>>

C2_Witness ==
    \E i \in GateEvents :
        /\ log[i].h.scopes = <<"admin", "transport">>
        /\ ~log[i].reqIn.auth["admin"]
        /\ log[i].reqIn.auth["transport"]
        /\ log[i].own = 1

\* C3: a validator calls next exactly once, with no error, when the request
\* sub-object of its location passes the compiled validator; otherwise it
\* raises a ValidationError carrying the engine's error list for that input
\* and never calls next; the request is the same before and after.
C3_ValidatorGate ==
    \A i \in ValidateEvents :
        LET e == log[i]
            data == ReqField(e.reqIn, e.h.whereIn)
        IN /\ AjvValid(e.h.schema, data) =>
                /\ e.own = 1
                /\ e.thrown = NoError
                /\ e.signals = <<NoError>>
           /\ ~AjvValid(e.h.schema, data) =>
                /\ e.own = 0
                /\ e.thrown.name = "ValidationError"
                /\ e.thrown.context = AjvErrors(e.h.schema, data)
                /\ e.thrown.context # <<>>
                /\ \A k \in DOMAIN e.signals : e.signals[k] # NoError
           /\ e.reqOut = e.reqIn

C3_Witness ==
    \E i, j \in ValidateEvents :
        /\ i < j
        /\ log[i].own = 1
        /\ log[j].own = 0
        /\ log[j].thrown.name = "ValidationError"
        /\ log[j].thrown.context = <<[path |-> "limit", keyword |-> "type"]>>

Rejected ==
    \E i \in ValidateEvents : log[i].thrown.name = "ValidationError"

IsValidationError(e) == e.name = "ValidationError"

\* C4: once a validator has rejected the request, no application handler
\* of the operation runs for it and the ValidationError reaches the error
\* channel exactly once, for plain and for async operations.
C4_RejectShortCircuits ==
    Rejected =>
        /\ AppEvents = {}
        /\ Cardinality({k \in DOMAIN pending : IsValidationError(pending[k].err)})
           + Cardinality({k \in DOMAIN errChannel : IsValidationError(errChannel[k])})
           = 1
        /\ pending = <<>> => Len(errChannel) = 1

C4_Witness ==
    /\ Rejected
    /\ pop.op.wrapper = "AsyncWrapper"
    /\ pending = <<>>
    /\ Len(errChannel) = 1
    /\ IsValidationError(errChannel[1])

\* The positions of the chain holding a parameter-group validator.
GroupValidators ==
    {i \in DOMAIN chain :
        chain[i].kind = "validate" /\ chain[i].whereIn # "body"}

BodyLocated(op) ==
    {i \in DOMAIN op.parameters : op.parameters[i].in = "body"}

\* C12: a parameter located in the body is not grouped: the chain holds
\* one parameter-group validator per other declared location and none for
\* the body parameter, whose name is a property of no group schema, and
\* every rejection by a parameter-group validator comes from the group of
\* one of the other locations.
C12_BodyParamUngrouped ==
    (Registration /\ BodyLocated(pop.op) # {}) =>
        LET op == pop.op
            others == ParamLocations(op) \ {"body"}
        IN /\ Cardinality(GroupValidators) = Cardinality(others)
           /\ \A i \in GroupValidators, j \in BodyLocated(op) :
                op.parameters[j].name \notin DOMAIN chain[i].schema.properties
           /\ \A i \in ValidateEvents :
                log[i].thrown.name = "ValidationError" =>
                    log[i].h.whereIn \in {"body"} \cup {inMap(l) : l \in others}

\* The positions of the chain holding a body validator.
BodyValidators ==
    {i \in DOMAIN chain :
        chain[i].kind = "validate" /\ chain[i].whereIn = "body"}

\* C15: once Route has handled the operation, its chain holds exactly one
\* body validator, over the declared schema verbatim, if the request body
\* declares application/json content; otherwise (no request body, no
\* content at all, or only other content types) the registration succeeds,
\* the chain holds no body validator and no validator reads the body.
C15_BodyValidatorIffJson ==
    phase \in {"routed", "crashed", "request"} =>
        LET op == pop.op IN
        /\ DeclaresJson(op) =>
              /\ Cardinality(BodyValidators) = 1
              /\ \A i \in BodyValidators :
                   Unwrapped(chain[i]) =
                       validateHandler(
                           op.requestBody.content["application/json"], "body")
        /\ ~DeclaresJson(op) =>
              /\ phase # "crashed"
              /\ BodyValidators = {}
              /\ \A i \in ValidateEvents : log[i].h.whereIn # "body"

\* The validators compiled for the registered operation: each validator
\* handler of the chain closes over one.
CompiledFor(whereIn) ==
    {i \in DOMAIN chain :
        chain[i].kind = "validate" /\ chain[i].whereIn = whereIn}

CompiledOnce ==
    Registration =>
        /\ Cardinality(CompiledFor("body")) <= 1
        /\ \A l \in {"path", "query", "body"} :
             Cardinality(CompiledFor(inMap(l))) =
                 IF l \in ParamLocations(pop.op) THEN 1 ELSE 0
        /\ \A i \in DOMAIN chain :
             chain[i].kind = "validate" =>
                 chain[i].whereIn \in {"body", "params", "query", "undefined"}

\* C19: the registration compiles one validator per location that has a
\* parameter and at most one body validator, and no step taken once the
\* operation is registered (a request received, a handler run, an error
\* handled) compiles a validator or replaces one: the registered handlers
\* and the validators they hold stay as the registration left them.
C19_CompiledAtRegistration ==
    /\ []CompiledOnce
    /\ [][Registration => (chain' = chain /\ pop' = pop)]_vars

\* A request under way on an operation with a body validator and two
\* parameter groups, of which one validator has run and the next rejected.
C19_Witness ==
    /\ phase = "request"
    /\ Cardinality(BodyValidators) = 1
    /\ Cardinality(GroupValidators) = 2
    /\ Len(pop.op.parameters) = 3
    /\ \E i, j \in ValidateEvents :
         /\ i < j
         /\ log[i].own = 1
         /\ log[j].thrown.name = "ValidationError"

\* The handlers of the operation as they are built, before any wrapper.
PlainHandlers(op) ==
    GateHandlers(op)
    \o (IF DeclaresJson(op)
        THEN <<validateHandler(op.requestBody.content["application/json"],
                               "body")>>
        ELSE <<>>)
    \o validate(op.parameters).handlers
    \o op.middleware

\* C20: with a wrapper on the operation, every handler of the registered
\* chain (gate handlers, body validator, parameter validators, middleware)
\* is the handler as built passed through the wrapper exactly once; with
\* no wrapper, every handler is the handler as built.
C20_EachHandlerWrappedOnce ==
    Registration =>
        /\ Len(chain) = Len(PlainHandlers(pop.op))
        /\ \A i \in DOMAIN chain :
             /\ Unwrapped(chain[i]) = PlainHandlers(pop.op)[i]
             /\ chain[i].wraps = IF pop.op.wrapper = "none" THEN 0 ELSE 1

\* An async operation registered with two gate handlers, a body validator,
\* two parameter validators and two middleware, each wrapped once.
C20_Witness ==
    /\ phase = "routed"
    /\ pop.op.wrapper = "AsyncWrapper"
    /\ Len(GateHandlers(pop.op)) = 2
    /\ Cardinality(BodyValidators) = 1
    /\ Cardinality(GroupValidators) = 2
    /\ Len(pop.op.middleware) = 2
    /\ Len(chain) = 7
    /\ \A i \in DOMAIN chain : chain[i].wraps = 1

\* The bindings of the operation whose security descriptor has a
\* pre-handler.
WithPreHandler(op) ==
    {i \in DOMAIN op.scope :
        \E k \in DOMAIN op.scope[i].middleware :
            op.scope[i].middleware[k].kind = "before"}

PreHandler(s) ==
    s.middleware[CHOOSE k \in DOMAIN s.middleware :
                    s.middleware[k].kind = "before"]

Gate(s) ==
    s.middleware[CHOOSE k \in DOMAIN s.middleware :
                    s.middleware[k].kind = "gate"]

\* C22: when the binding of a security descriptor with a pre-handler heads
\* the chain, the pre-handler is the first handler run for the request,
\* and it evaluates no scope check; the gate of such a binding runs only
\* directly after the pre-handler, and only when the pre-handler signalled
\* next without an error.
C22_PreHandlerFirst ==
    (phase = "request" /\ log # <<>>) =>
        /\ 1 \in WithPreHandler(pop.op) =>
             /\ Unwrapped(log[1].h) = PreHandler(pop.op.scope[1])
             /\ log[1].checked = <<>>
        /\ \A j \in GateEvents, i \in WithPreHandler(pop.op) :
             Unwrapped(log[j].h) = Gate(pop.op.scope[i]) =>
                 /\ j > 1
                 /\ Unwrapped(log[j - 1].h) = PreHandler(pop.op.scope[i])
                 /\ log[j - 1].signals = <<NoError>>

\* The pre-handler of key has run and signalled next, and the gate after
\* it found no scope check passing.
C22_Witness ==
    /\ phase = "request"
    /\ Len(log) >= 2
    /\ log[1].h.kind = "before"
    /\ log[1].user = "next"
    /\ log[2].h.kind = "gate"
    /\ log[2].checked = <<"admin">>
    /\ log[2].fallback = 1

\* The runs of a query validator compiled from a limit parameter declared
\* {type: 'integer', minimum: 1}.
LimitEvents ==
    {i \in ValidateEvents :
        /\ log[i].h.whereIn = "query"
        /\ "limit" \in DOMAIN log[i].h.schema.properties
        /\ log[i].h.schema.properties["limit"] = IntegerMin1}

\* C23: with the engine instance the library constructs, a query whose
\* limit is the text 5 passes the validator, which calls next, and a query
\* whose limit is the text foo is rejected with a ValidationError.
C23_QueryTextCoerced ==
    \A i \in LimitEvents :
        /\ log[i].reqIn.query = Obj([n \in {"limit"} |-> StrFive]) =>
             /\ log[i].thrown = NoError
             /\ log[i].own = 1
        /\ log[i].reqIn.query = Obj([n \in {"limit"} |-> StrFoo]) =>
             log[i].thrown.name = "ValidationError"

\* C27: in every run of a gate, the check handler of every requested scope
\* is invoked against the request, once each and in the order requested,
\* whatever the other checks return.
C27_EveryCheckInvoked ==
    \A i \in GateEvents : log[i].checked = log[i].h.scopes

\* C29: every run of a handler of the chain signals its continuation at
\* most once, with or without an error, an application handler that calls
\* next and fails afterwards under AsyncWrapper included.
C29_NextAtMostOnce ==
    \A i \in DOMAIN log : Len(log[i].signals) <= 1

\* The gate runs that denied the request and whose fallback handler did
\* not call next.
Denied ==
    {j \in GateEvents : ~Authorized(log[j]) /\ log[j].user # "next"}

\* C30: when a gate denies a request and the fallback handler does not
\* call next, the fallback handler has run, the gate has not called next,
\* no validator and no application handler runs after the gate, and no
\* ValidationError is raised for the request.
C30_DeniedStopsAtGate ==
    \A j \in Denied :
        /\ log[j].fallback = 1
        /\ log[j].own = 0
        /\ \A i \in DOMAIN log : i > j => log[i].h.kind \notin {"validate", "app"}
        /\ \A i \in DOMAIN log : log[i].thrown.name # "ValidationError"
        /\ \A k \in DOMAIN errChannel : ~IsValidationError(errChannel[k])
        /\ \A k \in DOMAIN pending : ~IsValidationError(pending[k].err)

\* A request that fails the admin check and whose query would fail the
\* validator of limit: the fallback answered and the chain ended there.
C30_Witness ==
    /\ phase = "request"
    /\ pending = <<>>
    /\ errChannel = <<>>
    /\ Len(log) = 1
    /\ 1 \in Denied
    /\ log[1].user = "respond"
    /\ Cardinality(GroupValidators) = 1
    /\ req.query = Obj([n \in {"limit"} |-> StrFoo])
    /\ \E i \in GroupValidators :
         ~AjvValid(chain[i].schema, ReqField(req, chain[i].whereIn))

\* The runs of a gate built with no requested scope name.
EmptyGateEvents == {i \in GateEvents : log[i].h.scopes = <<>>}

\* C34: a gate built by Scope with an empty list of scope names evaluates
\* no check, invokes the fallback handler and does not call next, whatever
\* the request; the chain continues past the gate only when the fallback
\* handler itself calls next.
C34_EmptyScopesDeny ==
    \A i \in EmptyGateEvents :
        /\ log[i].checked = <<>>
        /\ log[i].fallback = 1
        /\ log[i].own = 0
        /\ log[i].user # "next" =>
             \A k \in DOMAIN log[i].signals : log[i].signals[k] # NoError

\* A request every scope check would accept, at a gate with no scope: the
\* fallback answered and no further handler ran.
C34_Witness ==
    /\ phase = "request"
    /\ Len(log) = 1
    /\ 1 \in EmptyGateEvents
    /\ \A s \in ScopeNames : log[1].reqIn.auth[s]
    /\ log[1].fallback = 1
    /\ log[1].user = "respond"
    /\ log[1].signals = <<>>
    /\ pending = <<>>

Decorated(n) == Registration /\ Len(attached) = n

\* C5: after two authorization decorators with different auth names, the
\* chain holds the gate handlers of both bindings, in attachment order,
\* ahead of all validators and application handlers.
C5_BothGatesInChain ==
    (Decorated(2) /\ attached[1].auth # attached[2].auth) =>
        LET g == attached[1].middleware \o attached[2].middleware IN
        /\ Len(chain) >= Len(g)
        /\ \A i \in 1..Len(g) : Unwrapped(chain[i]) = g[i]

\* C6: after AuthPathOp is applied twice with different auth names, the
\* security list has one entry per auth name, each with its own scope
\* names, and both bindings are recorded on the operation.
C6_SecurityAdditive ==
    (Len(attached) = 2 /\ attached[1].auth # attached[2].auth) =>
        \A k \in 1..2 :
            /\ \E j \in DOMAIN pop.op.security :
                 pop.op.security[j] =
                     [auth |-> attached[k].auth, scopes |-> attached[k].scopes]
            /\ \E j \in DOMAIN pop.op.scope : pop.op.scope[j] = attached[k]

\* C7: in every gate invocation exactly one of "the gate calls next" and
\* "the fallback handler is invoked" happens; when no requested check
\* returns true it is the fallback, once, and the gate does not call next.
C7_GateXorFallback ==
    \A i \in GateEvents :
        /\ log[i].own + log[i].fallback = 1
        /\ ~Authorized(log[i]) => (log[i].fallback = 1 /\ log[i].own = 0)

C7_Witness ==
    \E i \in GateEvents :
        /\ log[i].h.scopes = <<"admin", "transport">>
        /\ ~Authorized(log[i])
        /\ log[i].fallback = 1
        /\ log[i].signals = <<>>

----------------------------------------------------------------------------
(* Objects with ordered keys (Object.keys is insertion order), as          *)
(* sequences of [k, v] entries with distinct keys.                         *)

ObjKeys(o) == [i \in 1..Len(o) |-> o[i].k]
ObjHas(o, k) == \E i \in DOMAIN o : o[i].k = k
ObjGet(o, k) == o[CHOOSE i \in DOMAIN o : o[i].k = k].v

\* o[k] = v: a present key keeps its position.
ObjSet(o, k, v) ==
    IF ObjHas(o, k)
    THEN [i \in 1..Len(o) |-> IF o[i].k = k THEN [k |-> k, v |-> v] ELSE o[i]]
    ELSE Append(o, [k |-> k, v |-> v])

\* delete o[k]
RECURSIVE ObjDelete(_, _)
ObjDelete(o, k) ==
    IF o = <<>> THEN <<>>
    ELSE (IF Head(o).k = k THEN <<>> ELSE <<Head(o)>>) \o ObjDelete(Tail(o), k)

\* Object.assign(target, src), also { ...target, ...src }
RECURSIVE ObjAssign(_, _)
ObjAssign(target, src) ==
    IF src = <<>> THEN target
    ELSE ObjAssign(ObjSet(target, Head(src).k, Head(src).v), Tail(src))

----------------------------------------------------------------------------
(* Path templates are sequences of characters.                             *)

WordChars == {"a", "b", "d", "i", "p", "x"}

\* .replace(/\(.*?\)/g, ''): from each "(" to the nearest ")" after it.
RECURSIVE StripGroups(_)
StripGroups(t) ==
    IF t = <<>> THEN <<>>
    ELSE IF Head(t) = "(" /\ \E j \in 2..Len(t) : t[j] = ")"
         THEN LET j == CHOOSE j \in 2..Len(t) :
                         /\ t[j] = ")"
                         /\ \A i \in 2..(j - 1) : t[i] # ")"
              IN StripGroups(SubSeq(t, j + 1, Len(t)))
         ELSE <<Head(t)>> \o StripGroups(Tail(t))

\* The longest run of word characters at the head of t.
RECURSIVE WordPrefix(_)
WordPrefix(t) ==
    IF t = <<>> \/ Head(t) \notin WordChars THEN <<>>
    ELSE <<Head(t)>> \o WordPrefix(Tail(t))

\* .replace(/:(\w+)/g, '{$1}')
RECURSIVE BraceNames(_)
BraceNames(t) ==
    IF t = <<>> THEN <<>>
    ELSE IF Head(t) = ":" /\ WordPrefix(Tail(t)) # <<>>
         THEN LET w == WordPrefix(Tail(t)) IN
              <<"{">> \o w \o <<"}">>
              \o BraceNames(SubSeq(t, Len(w) + 2, Len(t)))
         ELSE <<Head(t)>> \o BraceNames(Tail(t))

\* The documentation key of prefix + k.
pathKey(prefix, k) == BraceNames(StripGroups(prefix \o k))

----------------------------------------------------------------------------
(* Path, Route, Controller, Paths.                                         *)

\* Path(path, ...po): one key, the path objects spread in order.
RECURSIVE PathReduce(_, _)
PathReduce(acc0, po) ==
    IF po = <<>> THEN acc0
    ELSE PathReduce(ObjAssign(acc0, Head(po)), Tail(po))

\* Mutant of Path: an earlier path object wins over a later one.
PathKeepsFirst(path, po) ==
    <<[k |-> path,
       v |-> PathReduce(<<>>, [i \in 1..Len(po) |-> po[Len(po) + 1 - i]])]>>

Path(path, po) == <<[k |-> path, v |-> PathReduce(<<>>, po)]>>

\* A path object as a one-key object, for Path.
PathObject(m) == <<[k |-> m.method, v |-> m.op]>>

\* The (path, method) pairs of the path items, in Object.keys order.
RECURSIVE MethodsOf(_, _)
MethodsOf(path, po) ==
    IF po = <<>> THEN <<>>
    ELSE <<[method |-> Head(po).k, path |-> path, pathOp |-> Head(po).v]>>
         \o MethodsOf(path, Tail(po))

RECURSIVE PairsOf(_)
PairsOf(pitem) ==
    IF pitem = <<>> THEN <<>>
    ELSE MethodsOf(Head(pitem).k, Head(pitem).v) \o PairsOf(Tail(pitem))

RECURSIVE PairsOfAll(_)
PairsOfAll(pitems) ==
    IF pitems = <<>> THEN <<>>
    ELSE PairsOf(Head(pitems)) \o PairsOfAll(Tail(pitems))

\* Route(rtr, ...pitems): mapRouter binds each pair on the router; the
\* path items are returned as given.
Route(rtr, pitems) ==
    LET pairs == PairsOfAll(pitems) IN
    [paths |-> pitems,
     threw |-> \E i \in DOMAIN pairs : mapRouter(pairs[i].pathOp).threw,
     router |-> rtr \o [i \in 1..Len(pairs) |->
                          [method |-> pairs[i].method, path |-> pairs[i].path,
                           middle |-> mapRouter(pairs[i].pathOp).middle]]]

\* Controller, the forEach over the keys of one path item: the keys are
\* read once, then each is re-keyed and deleted.
RECURSIVE RewriteKeys(_, _, _)
RewriteKeys(p, keys, prefix) ==
    IF keys = <<>> THEN p
    ELSE LET k == Head(keys)
             set == ObjSet(p, pathKey(prefix, k), ObjGet(p, k))
         IN RewriteKeys(ObjDelete(set, k), Tail(keys), prefix)

\* Controller(ctrl)(app): the router of ctrl.route is mounted under the
\* prefix and the path items come back re-keyed.
Controller(ctrl) ==
    LET paths == Route(<<>>, ctrl.items) IN
    [threw |-> paths.threw,
     mount |-> [prefix |-> ctrl.prefix, router |-> paths.router],
     paths |-> [i \in 1..Len(paths.paths) |->
                  RewriteKeys(paths.paths[i], ObjKeys(paths.paths[i]),
                              ctrl.prefix)]]

\* `${method} ${path}`
Full(method, path) == <<method, " ">> \o path

\* Paths, the callback of paths.forEach: the first key of p and the first
\* method under it are tracked; p without a key throws a TypeError.
PathsItem(a, p) ==
    IF a.threw \/ p = <<>> THEN [a EXCEPT !.threw = TRUE]
    ELSE LET path == p[1].k
             method == IF p[1].v = <<>> THEN "undefined" ELSE p[1].v[1].k
             full == Full(method, path)
         IN [out |-> ObjAssign(a.out, p),
             track |-> a.track \cup {full},
             warned |-> IF full \in a.track THEN Append(a.warned, full)
                        ELSE a.warned,
             merged |-> a.merged + 1,
             threw |-> FALSE]

RECURSIVE PathsForEach(_, _)
PathsForEach(a, paths) ==
    IF paths = <<>> THEN a
    ELSE PathsForEach(PathsItem(a, Head(paths)), Tail(paths))

----------------------------------------------------------------------------
(* SpecPaths: Paths(app, ...ctrls), one controller per step.               *)

Root == <<"/">>
IdPattern == <<"/", ":", "i", "d", "(", "\\", "d", "+", ")">>
Templates == {Root, IdPattern}

Prefixes == {<<>>, <<"/", "a", "p", "i">>}

\* The operation of item j of the n-th controller, under method m.
PathOp(n, j, m) ==
    [tags |-> <<"ctrl", n, j>>, description |-> "an operation",
     parameters |-> <<>>, requestBody |-> NoBody,
     responses |-> [c \in {"200"} |-> "ok"], security |-> <<>>,
     scope |-> <<>>, wrapper |-> "none",
     middleware |-> <<AppHandler(m)>>]

MethodLists == {<<"get">>, <<"post">>, <<"get", "post">>}

\* The path items one controller can declare as its j-th.
PathItems(n, j) ==
    {Path(t, [i \in 1..Len(ms) |-> PathObject(Method(ms[i], PathOp(n, j, ms[i])))])
        : t \in Templates, ms \in MethodLists}

\* The controllers that can be the n-th argument of Paths.
Controllers(n) ==
    {[prefix |-> x, items |-> <<p>>] : x \in Prefixes, p \in PathItems(n, 1)}
    \cup {[prefix |-> x, items |-> <<p, q>>] :
            x \in Prefixes, p \in PathItems(n, 1), q \in PathItems(n, 2)}

IdleChain ==
    /\ phase = "idle"
    /\ pop = Get(CHOOSE o \in Operations : TRUE)
    /\ attached = <<>>
    /\ chain = <<>>
    /\ req = NoRequest
    /\ pending = <<>>
    /\ log = <<>>
    /\ errChannel = <<>>

InitPaths ==
    /\ IdleChain
    /\ acc = [out |-> <<>>, track |-> {}]
    /\ warned = <<>>
    /\ mounts = <<>>
    /\ contrib = <<>>
    /\ pstate = "running"
    /\ call = NoCall
    /\ shared = NoShared

\* Mutant of Aggregated: a controller whose path items raise a duplicate
\* diagnostic is not mounted.
AggregatedSkipsDuplicate(c, ctl, a) ==
    /\ mounts' = IF a.warned # warned THEN mounts
                 ELSE Append(mounts, ctl.mount)
    /\ acc' = [out |-> a.out, track |-> a.track]
    /\ warned' = a.warned
    /\ contrib' = contrib \o
         [i \in 1..Len(c.items) |->
            [prefix |-> c.prefix, given |-> c.items[i],
             returned |-> ctl.paths[i], merged |-> i <= a.merged]]
    /\ pstate' = IF a.threw THEN "thrown" ELSE "running"

\* The state after one call of the reduce callback on controller c.
Aggregated(c, ctl, a) ==
    /\ mounts' = Append(mounts, ctl.mount)
    /\ acc' = [out |-> a.out, track |-> a.track]
    /\ warned' = a.warned
    /\ contrib' = contrib \o
         [i \in 1..Len(c.items) |->
            [prefix |-> c.prefix, given |-> c.items[i],
             returned |-> ctl.paths[i], merged |-> i <= a.merged]]
    /\ pstate' = IF a.threw THEN "thrown" ELSE "running"

\* One call of the reduce callback: c(app), then paths.forEach.
Aggregate ==
    /\ pstate = "running"
    /\ \E c \in Controllers(Len(mounts) + 1) :
         /\ Len(contrib) + Len(c.items) <= MaxItems
         /\ \E ctl \in {Controller(c)} :
              \E a \in {PathsForEach([out |-> acc.out, track |-> acc.track,
                                      warned |-> warned, merged |-> 0,
                                      threw |-> ctl.threw], ctl.paths)} :
                 Aggregated(c, ctl, a)
    /\ UNCHANGED <<chainVars, call, shared>>

\* The reduce is over: Paths returns paths.out.
Return ==
    /\ pstate = "running"
    /\ pstate' = "returned"
    /\ UNCHANGED <<acc, warned, mounts, contrib>>
    /\ UNCHANGED <<chainVars, call, shared>>

NextPaths == Aggregate \/ Return

SpecPaths == InitPaths /\ [][NextPaths]_vars

----------------------------------------------------------------------------
(* Claims on the aggregation (SpecPaths).                                  *)

\* The path items Paths has merged so far, in order.
MergedItems == SelectSeq(contrib, LAMBDA h : h.merged)

Contributes(h, method, path) ==
    \E i \in DOMAIN PairsOf(h.returned) :
        /\ PairsOf(h.returned)[i].method = method
        /\ PairsOf(h.returned)[i].path = path

ContributedPairs ==
    {pr \in [method : {"get", "post"},
             path : {pathKey(x, t) : x \in Prefixes, t \in Templates}] :
        \E i \in DOMAIN MergedItems :
            Contributes(MergedItems[i], pr.method, pr.path)}

Contributors(pr) ==
    {i \in DOMAIN MergedItems : Contributes(MergedItems[i], pr.method, pr.path)}

Warnings(pr) == {k \in DOMAIN warned : warned[k] = Full(pr.method, pr.path)}

\* C8: a duplicate diagnostic is emitted for a (method, translated path)
\* pair exactly when an earlier path item already contributed that pair:
\* one warning per repeated contribution, none for a pair seen once.
C8_DuplicateWarned ==
    /\ \A pr \in ContributedPairs :
         Cardinality(Warnings(pr)) = Cardinality(Contributors(pr)) - 1
    /\ \A k \in DOMAIN warned :
         \E pr \in ContributedPairs : k \in Warnings(pr)

\* C9: the aggregate map holds, for every contributed (path, method) pair,
\* the operation of the last path item that contributed the pair.
C9_LastWriteWinsPerPair ==
    \A pr \in ContributedPairs :
        LET last == CHOOSE i \in Contributors(pr) :
                        \A j \in Contributors(pr) : j <= i
        IN /\ ObjHas(acc.out, pr.path)
           /\ ObjHas(ObjGet(acc.out, pr.path), pr.method)
           /\ ObjGet(ObjGet(acc.out, pr.path), pr.method)
              = ObjGet(ObjGet(MergedItems[last].returned, pr.path), pr.method)

\* C10: every path item Controller returns has exactly one key per original
\* key, the prefixed documentation key, mapping to the same operations,
\* and the aggregation by Paths succeeds, for every prefix and template.
C10_ControllerRekeys ==
    /\ pstate # "thrown"
    /\ \A i \in DOMAIN contrib :
         LET h == contrib[i] IN
         /\ Len(h.returned) = Len(h.given)
         /\ \A j \in DOMAIN h.given :
              /\ ObjHas(h.returned, pathKey(h.prefix, h.given[j].k))
              /\ ObjGet(h.returned, pathKey(h.prefix, h.given[j].k))
                 = h.given[j].v

\* The runtime bindings, in mount order: the prefix of the mount, and the
\* method, path and chain bound on its router.
Bound ==
    Concat([n \in 1..Len(mounts) |->
              [i \in 1..Len(mounts[n].router) |->
                 [prefix |-> mounts[n].prefix,
                  method |-> mounts[n].router[i].method,
                  path |-> mounts[n].router[i].path,
                  middle |-> mounts[n].router[i].middle]]])

\* One binding per (path, method) of every path item handed to Route, in
\* controller order.
Declared ==
    Concat([n \in 1..Len(contrib) |->
              [i \in 1..Len(PairsOf(contrib[n].given)) |->
                 [prefix |-> contrib[n].prefix,
                  method |-> PairsOf(contrib[n].given)[i].method,
                  path |-> PairsOf(contrib[n].given)[i].path,
                  middle |->
                      mapRouter(PairsOf(contrib[n].given)[i].pathOp).middle]]])

\* The controller a path item was declared by (the tag of its operations).
ControllerOf(h) == h.given[1].v[1].v.tags[2]

\* C18: after Paths returns, every controller's router is mounted under
\* its prefix, in controller order, and every (path, method) of every path
\* item has a binding of its own, repeated pairs included; and Paths never
\* fails on account of a duplicate.
C18_DuplicatesStayBound ==
    /\ pstate = "returned" =>
          /\ Bound = Declared
          /\ \A n \in DOMAIN contrib :
                /\ ControllerOf(contrib[n]) \in DOMAIN mounts
                /\ mounts[ControllerOf(contrib[n])].prefix = contrib[n].prefix
    /\ pstate = "thrown" =>
          \E n \in DOMAIN contrib : contrib[n].returned = <<>>

\* Paths has returned after a duplicate diagnostic, and one (prefix, path,
\* method) has two bindings.
C18_Witness ==
    /\ pstate = "returned"
    /\ warned # <<>>
    /\ \E i, j \in DOMAIN Bound :
         /\ i < j
         /\ Bound[i].prefix = Bound[j].prefix
         /\ Bound[i].path = Bound[j].path
         /\ Bound[i].method = Bound[j].method

----------------------------------------------------------------------------
(* SpecCalls: the pure builders, each called on bounded inputs.            *)

TemplateChars == {"/", ":", "a", "(", ")"}

\* Every template of at most MaxTemplate characters, and two shaped as the
\* tests' /:id(\\d+) and /:feedId(\\d+)/values/:valueId(\\d+).
NestedPattern ==
    <<"/", ":", "a", "(", "\\", "d", "+", ")", "/", "x", "/",
      ":", "b", "(", "\\", "d", "+", ")">>

AllTemplates ==
    UNION {[1..n -> TemplateChars] : n \in 0..MaxTemplate}
    \cup {IdPattern, NestedPattern}

\* Parameters over every location, required and optional, one name used
\* in two locations.
OffsetParam == QueryParam([name |-> "offset", required |-> TRUE,
                           schema |-> IntegerMin1])

AllParams == {LimitParam, OffsetParam, QueryIdParam, IdParam, NameParam}

\* Every list of at most MaxParams parameters, a (location, name) at most
\* once in a list.
AllParameterLists ==
    {s \in UNION {[1..n -> AllParams] : n \in 0..MaxParams} :
        \A i, j \in DOMAIN s : s[i] = s[j] => i = j}

CallQueryValues ==
    {Obj(EmptyObj),
     Obj([n \in {"limit"} |-> NumFive]),
     Obj([n \in {"offset"} |-> NumFive]),
     Obj([n \in {"limit", "offset"} |-> NumFive]),
     Obj([n \in {"limit", "offset"} |->
            IF n = "limit" THEN StrFoo ELSE NumFive])}

CallRequests ==
    [query : CallQueryValues, params : ParamsValues, body : BodyValues,
     auth : {[s \in ScopeNames |-> FALSE]}]

\* Responses an operation declares before any decorator: none, '200' as in
\* the tests, '200' and a '400' of its own.
ResponseMaps ==
    {EmptyObj, [c \in {"200"} |-> "ok"],
     [c \in {"200", "400"} |-> IF c = "200" THEN "ok" ELSE "bad"]}

DecoratedOperations ==
    {[o EXCEPT !.responses = r] : o \in Operations, r \in ResponseMaps}

\* The one-method path objects a decorator is given: Get(o), AsyncPost(o).
DecoratedPathObjects ==
    {Get(o) : o \in DecoratedOperations}
    \cup {AsyncPost(o) : o \in DecoratedOperations}

\* AuthPathOp(bs[n])(... AuthPathOp(bs[1])(po)): the path object after
\* each application.
RECURSIVE AuthPathOpEach(_, _)
AuthPathOpEach(bs, po) ==
    IF bs = <<>> THEN <<>>
    ELSE LET ret == AuthPathOp(Head(bs), po)
         IN <<ret>> \o AuthPathOpEach(Tail(bs), ret)

InitCalls ==
    /\ IdleChain
    /\ IdlePaths

\* Controller computes the documentation key of prefix + k.
CallPathKey ==
    /\ call = NoCall
    /\ \E x \in Prefixes, t \in AllTemplates :
         call' = [fn |-> "pathKey", arg |-> [prefix |-> x, k |-> t],
                  ret |-> pathKey(x, t)]
    /\ UNCHANGED <<chainVars, pathVars, shared>>

\* validate(s), and each returned handler called on one request.
CallValidate ==
    /\ call = NoCall
    /\ \E s \in AllParameterLists, r \in CallRequests :
         \E v \in {validate(s)} :
           call' = [fn |-> "validate", arg |-> [s |-> s, req |-> r],
                    ret |-> [handlers |-> v.handlers, schema |-> v.schema,
                             calls |-> [i \in DOMAIN v.handlers |->
                                 validateHandlerCall(v.handlers[i], r)]]]
    /\ UNCHANGED <<chainVars, pathVars, shared>>

\* One to MaxAuth authorization decorators applied to a path object.
CallAuthPathOp ==
    /\ call = NoCall
    /\ \E n \in 1..MaxAuth :
         \E bs \in [1..n -> Bindings], po \in DecoratedPathObjects :
           call' = [fn |-> "AuthPathOp", arg |-> [scopes |-> bs, pop |-> po],
                    ret |-> AuthPathOpEach(bs, po)]
    /\ UNCHANGED <<chainVars, pathVars, shared>>

\* The handlers AsyncWrapper is given: user-supplied ones and validators.
WrappedHandlers ==
    {AppHandler("h1"), BeforeHandler("key")}
    \cup {validate(s).handlers[1] : s \in {<<LimitParam>>, <<IdParam>>}}

\* AsyncWrapper(cb)(req, res, next): cb called on one request, and what
\* the wrapper makes of its outcome.
CallAsyncWrapper ==
    /\ call = NoCall
    /\ \E h \in WrappedHandlers, r \in CallRequests, b \in AppBehaviours :
         \E res \in {IF h.kind = "validate" THEN validateHandlerCall(h, r)
                     ELSE UserCall(h, r, b)} :
           call' = [fn |-> "AsyncWrapper",
                    arg |-> [cb |-> h, req |-> r, res |-> res],
                    ret |-> AsyncWrapper(res)]
    /\ UNCHANGED <<chainVars, pathVars, shared>>

\* The operations given to Route: no request body, a JSON body, a request
\* body without content.
RouteOp(body, m) == [PathOp(1, 1, m) EXCEPT !.requestBody = body]

RoutePathItems ==
    {Path(t, [i \in 1..Len(ms) |->
                PathObject(Method(ms[i], RouteOp(body, ms[i])))]) :
        t \in Templates, ms \in MethodLists,
        body \in {NoBody, JsonBody, BareBody}}

\* Route(rtr, ...pitems) on a fresh router.
CallRoute ==
    /\ call = NoCall
    /\ \E n \in 1..MaxRoute :
         \E pitems \in [1..n -> RoutePathItems] :
           call' = [fn |-> "Route", arg |-> [pitems |-> pitems],
                    ret |-> Route(<<>>, pitems)]
    /\ UNCHANGED <<chainVars, pathVars, shared>>

\* The path objects given to Path: get or post, the operation tagged with
\* its position in the call.
PathObjectLists ==
    UNION {{[i \in 1..n |-> PathObject(Method(ms[i], PathOp(1, i, ms[i])))] :
              ms \in [1..n -> {"get", "post"}]} : n \in 0..MaxOps}

\* Path(path, ...po)
CallPath ==
    /\ call = NoCall
    /\ \E t \in Templates, po \in PathObjectLists :
         call' = [fn |-> "Path", arg |-> [path |-> t, po |-> po],
                  ret |-> Path(t, po)]
    /\ UNCHANGED <<chainVars, pathVars, shared>>

\* Descriptors without a location: name and schema, with or without
\* required and description.
Descriptors ==
    {Spread(Spread([name |-> n, schema |-> s], r), d) :
        n \in {"limit", "id"}, s \in {IntegerMin1, StringSchema},
        r \in {EmptyObj} \cup {[required |-> b] : b \in BOOLEAN},
        d \in {EmptyObj, [description |-> "max number"]}}

\* Param(pin)(param), QueryParam(param) or PathParam(param); ret holds the
\* parameter returned and the descriptor as the call leaves it.
CallParam ==
    /\ call = NoCall
    /\ \E b \in {"Param", "QueryParam", "PathParam"},
          pin \in {"query", "path", "body"}, d \in Descriptors :
         call' = [fn |-> b, arg |-> [pin |-> pin, param |-> d],
                  ret |-> [out |-> IF b = "QueryParam" THEN QueryParam(d)
                                   ELSE IF b = "PathParam" THEN PathParam(d)
                                   ELSE Param(pin, d),
                           param |-> d]]
    /\ UNCHANGED <<chainVars, pathVars, shared>>

NextCalls ==
    \/ CallParam
    \/ CallPath
    \/ CallRoute
    \/ CallAsyncWrapper
    \/ CallPathKey
    \/ CallValidate
    \/ CallAuthPathOp

SpecCalls == InitCalls /\ [][NextCalls]_vars

----------------------------------------------------------------------------
(* Claims on the pure builders (SpecCalls).                                *)

\* The index of the ")" that closes a group opened before position i of t
\* at nesting depth d, or 0 if the group is never closed.
RECURSIVE Closing(_, _, _)
Closing(t, i, d) ==
    IF i > Len(t) THEN 0
    ELSE IF t[i] = ")" THEN (IF d = 1 THEN i ELSE Closing(t, i + 1, d - 1))
    ELSE IF t[i] = "(" THEN Closing(t, i + 1, d + 1)
    ELSE Closing(t, i + 1, d)

\* The template with every named segment :name or :name(pattern) replaced
\* by {name}, and every other character kept.
RECURSIVE DocSyntax(_)
DocSyntax(t) ==
    IF t = <<>> THEN <<>>
    ELSE IF Head(t) = ":" /\ WordPrefix(Tail(t)) # <<>>
         THEN LET w == WordPrefix(Tail(t))
                  rest == SubSeq(t, Len(w) + 2, Len(t))
                  c == IF rest # <<>> /\ rest[1] = "("
                       THEN Closing(rest, 2, 1) ELSE 0
              IN <<"{">> \o w \o <<"}">>
                 \o DocSyntax(SubSeq(rest, c + 1, Len(rest)))
         ELSE <<Head(t)>> \o DocSyntax(Tail(t))

\* C11: for every prefix and routing template, the documentation key is
\* the prefix followed by the template with every named segment :name or
\* :name(pattern) replaced by {name}; no colon or parenthesis of a named
\* segment remains.
C11_NamedSegmentsBraced ==
    call.fn = "pathKey" =>
        call.ret = DocSyntax(call.arg.prefix \o call.arg.k)

\* req[...] that holds the parameters of a location.
SubObject(loc) == IF loc = "path" THEN "params" ELSE loc

ParamsIn(s, loc) == {i \in DOMAIN s : s[i].in = loc}

\* C13: validate(s) returns exactly one handler and one object schema per
\* location that has a parameter in s and none for any other location;
\* every parameter is a property of the schema of its own location's group
\* and each group's handler validates the request sub-object of its own
\* location.
C13_OneValidatorPerLocation ==
    call.fn = "validate" =>
        LET s == call.arg.s
            hs == call.ret.handlers
            locs == {s[i].in : i \in DOMAIN s}
            of(loc) == {i \in DOMAIN hs : hs[i].whereIn = SubObject(loc)}
        IN /\ Len(hs) = Cardinality(locs)
           /\ DOMAIN call.ret.schema = {SubObject(loc) : loc \in locs}
           /\ \A loc \in locs :
                /\ Cardinality(of(loc)) = 1
                /\ \A i \in of(loc) :
                     /\ hs[i].schema = call.ret.schema[SubObject(loc)]
                     /\ DOMAIN hs[i].schema.properties =
                            {s[j].name : j \in ParamsIn(s, loc)}
                     /\ call.ret.calls[i].ev.h = hs[i]

\* C14: the schema of each location group has one property per parameter
\* name of the group, holding that parameter's schema; its required list
\* holds exactly the names of the group's parameters marked required: true,
\* each once; a request lacking a required parameter of the group is
\* rejected, and no rejection reports as missing a parameter that is not
\* marked required.
C14_RequiredList ==
    call.fn = "validate" =>
        \A i \in DOMAIN call.ret.handlers :
            LET s == call.arg.s
                h == call.ret.handlers[i]
                res == call.ret.calls[i]
                data == ReqField(call.arg.req, h.whereIn)
                group == {j \in DOMAIN s : inMap(s[j].in) = h.whereIn}
                marked == {s[j].name : j \in {k \in group : s[k].required = TRUE}}
                rq == h.schema.required
            IN /\ DOMAIN h.schema.properties = {s[j].name : j \in group}
               /\ \A j \in group : h.schema.properties[s[j].name] = s[j].schema
               /\ {rq[k] : k \in DOMAIN rq} = marked
               /\ \A k, l \in DOMAIN rq : rq[k] = rq[l] => k = l
               /\ (\E n \in marked : ~data.def \/ n \notin DOMAIN data.val) =>
                    /\ res.thrown.name = "ValidationError"
                    /\ res.nexts = <<>>
               /\ \A k \in DOMAIN res.thrown.context :
                    res.thrown.context[k].keyword = "required" =>
                        res.thrown.context[k].path \in marked

\* limit (optional) and offset (required) in the query, id (required) in
\* the path; the request has offset only: the query validator accepts it
\* and the path validator rejects it for the missing id.
C14_Witness ==
    /\ call.fn = "validate"
    /\ call.arg.s = <<LimitParam, OffsetParam, IdParam>>
    /\ call.arg.req.query = Obj([n \in {"offset"} |-> NumFive])
    /\ call.arg.req.params = Obj(EmptyObj)
    /\ call.ret.handlers[1].schema.required = <<"offset">>
    /\ call.ret.calls[1].nexts = <<NoError>>
    /\ call.ret.calls[1].thrown = NoError
    /\ call.ret.calls[2].thrown.context =
           <<[path |-> "id", keyword |-> "required"]>>

\* C16: each application of AuthPathOp keeps every response the operation
\* declared before it under a status code the binding does not declare,
\* holds every response of the binding, the binding's under a status code
\* both declare, and holds nothing else.
C16_ResponsesMerged ==
    call.fn = "AuthPathOp" =>
        \A k \in DOMAIN call.ret :
            LET before == IF k = 1 THEN call.arg.pop.op.responses
                          ELSE call.ret[k - 1].op.responses
                scope == call.arg.scopes[k]
                after == call.ret[k].op.responses
            IN /\ DOMAIN after = DOMAIN before \cup DOMAIN scope.responses
               /\ \A c \in DOMAIN scope.responses : after[c] = scope.responses[c]
               /\ \A c \in DOMAIN before \ DOMAIN scope.responses :
                    after[c] = before[c]

\* An operation declaring '200' and its own '400', decorated with auth and
\* then key, which both declare '400': the description of key is kept.
C16_Witness ==
    /\ call.fn = "AuthPathOp"
    /\ Len(call.arg.scopes) = 2
    /\ call.arg.scopes[1].auth = "auth"
    /\ call.arg.scopes[2].auth = "key"
    /\ DOMAIN call.arg.pop.op.responses = {"200", "400"}
    /\ call.arg.pop.op.responses["400"] = "bad"
    /\ call.ret[1].op.responses["400"] = "Not auth"
    /\ call.ret[2].op.responses["400"] = "No key"
    /\ call.ret[2].op.responses["200"] = "ok"
    /\ DOMAIN call.ret[2].op.responses = {"200", "400", "401"}

\* C17: when the handler given to AsyncWrapper fails, the wrapper calls
\* next once more than the handler did, with the failure value itself, and
\* does not fail; when the handler does not fail, the next calls are the
\* handler's own and the wrapper does not fail.
C17_AsyncForwardsOnce ==
    call.fn = "AsyncWrapper" =>
        LET cb == call.arg.res
            out == call.ret
        IN /\ out.thrown = NoError
           /\ cb.thrown # NoError => out.nexts = Append(cb.nexts, cb.thrown)
           /\ cb.thrown = NoError => out.nexts = cb.nexts
           /\ out.req = cb.req

\* A validator that rejects the request, wrapped: the ValidationError it
\* threw is the one argument of the one next call.
C17_Witness ==
    /\ call.fn = "AsyncWrapper"
    /\ call.arg.cb.kind = "validate"
    /\ call.arg.res.thrown.name = "ValidationError"
    /\ call.arg.res.nexts = <<>>
    /\ call.ret.nexts = <<call.arg.res.thrown>>
    /\ call.ret.thrown = NoError

\* C21: Route returns, with one runtime binding for each (path, method) of
\* each path item it is given, under that method and that path template as
\* given, in path-item order, and with the path items it was given, their
\* operations unmodified.
C21_OneBindingPerPair ==
    call.fn = "Route" =>
        LET pairs == PairsOfAll(call.arg.pitems)
            router == call.ret.router
        IN /\ ~call.ret.threw
           /\ call.ret.paths = call.arg.pitems
           /\ Len(router) = Len(pairs)
           /\ \A i \in DOMAIN pairs :
                /\ router[i].method = pairs[i].method
                /\ router[i].path = pairs[i].path

\* The entries of a security list under one auth name.
EntriesFor(security, auth) ==
    {i \in DOMAIN security : security[i].auth = auth}

\* C24: when AuthPathOp is applied to an operation again with an auth name
\* already applied to it, the security list has exactly one entry for that
\* name, carrying the scope list of the later application.
C24_SameNameOverwrites ==
    call.fn = "AuthPathOp" =>
        \A k \in DOMAIN call.ret :
            (\E j \in 1..(k - 1) :
                call.arg.scopes[j].auth = call.arg.scopes[k].auth) =>
                LET security == call.ret[k].op.security
                    own == EntriesFor(security, call.arg.scopes[k].auth)
                IN /\ Cardinality(own) = 1
                   /\ \A i \in own :
                        security[i].scopes = call.arg.scopes[k].scopes

\* auth applied with no scope and then with admin and transport.
C24_Witness ==
    /\ call.fn = "AuthPathOp"
    /\ Len(call.arg.scopes) = 2
    /\ call.arg.scopes[1] = Scope(SecAuth, <<>>)
    /\ call.arg.scopes[2] = Scope(SecAuth, <<"admin", "transport">>)
    /\ call.ret[1].op.security = <<[auth |-> "auth", scopes |-> <<>>]>>
    /\ call.ret[2].op.security =
           <<[auth |-> "auth", scopes |-> <<"admin", "transport">>]>>

\* The method and operation of a one-key path object.
GivenMethod(p) == p[1].k
GivenOp(p) == p[1].v

\* C25: Path returns a path item with the single key given, whose method
\* map holds exactly the methods given, each once, and under each method
\* the operation of the last path object given for it.
C25_PathLastMethodWins ==
    call.fn = "Path" =>
        LET po == call.arg.po
            item == call.ret
            methods == item[1].v
        IN /\ Len(item) = 1
           /\ item[1].k = call.arg.path
           /\ {methods[i].k : i \in DOMAIN methods}
                  = {GivenMethod(po[i]) : i \in DOMAIN po}
           /\ \A i, j \in DOMAIN methods : methods[i].k = methods[j].k => i = j
           /\ \A i \in DOMAIN po :
                (\A j \in DOMAIN po :
                    GivenMethod(po[j]) = GivenMethod(po[i]) => j <= i) =>
                    ObjGet(methods, GivenMethod(po[i])) = GivenOp(po[i])

\* get, post and get again: both methods are kept and get holds the
\* operation given third.
C25_Witness ==
    /\ call.fn = "Path"
    /\ Len(call.arg.po) = 3
    /\ GivenMethod(call.arg.po[1]) = "get"
    /\ GivenMethod(call.arg.po[2]) = "post"
    /\ GivenMethod(call.arg.po[3]) = "get"
    /\ ObjKeys(call.ret[1].v) = <<"get", "post">>
    /\ ObjGet(call.ret[1].v, "get") = GivenOp(call.arg.po[3])
    /\ ObjGet(call.ret[1].v, "post") = GivenOp(call.arg.po[2])

\* The location a builder stamps.
Stamped ==
    IF call.fn = "QueryParam" THEN "query"
    ELSE IF call.fn = "PathParam" THEN "path" ELSE call.arg.pin

\* C26: the parameter a Param builder returns has the fields of the
\* descriptor, each with the descriptor's value, and the one field more
\* that holds the location (query for QueryParam, path for PathParam, the
\* location given for Param); the descriptor is as it was.
C26_ParamStampsLocation ==
    call.fn \in {"Param", "QueryParam", "PathParam"} =>
        LET d == call.arg.param
            out == call.ret.out
        IN /\ DOMAIN out = DOMAIN d \cup {"in"}
           /\ out["in"] = Stamped
           /\ \A f \in DOMAIN d : out[f] = d[f]
           /\ call.ret.param = d
           /\ "in" \notin DOMAIN call.ret.param

\* PathParam on a descriptor with a description and no required field.
C26_Witness ==
    /\ call.fn = "PathParam"
    /\ DOMAIN call.arg.param = {"name", "schema", "description"}
    /\ call.ret.out["in"] = "path"
    /\ call.ret.out["description"] = "max number"
    /\ DOMAIN call.ret.out = {"name", "schema", "description", "in"}

----------------------------------------------------------------------------
(* SpecShared: requests in flight on one route, whose validator is         *)
(* compiled once and shared. A handler runs to completion; requests        *)
(* interleave between handlers.                                            *)

\* The validator of a route declaring the query parameter limit.
SharedValidator == validate(<<LimitParam>>).handlers[1]

\* Queries that pass, fail on the type and fail on the minimum.
SharedQueryValues ==
    {Obj([n \in {"limit"} |-> NumFive]),
     Obj([n \in {"limit"} |-> StrFoo]),
     Obj([n \in {"limit"} |-> NumZero])}

SharedRequest(q) ==
    [NoRequest EXCEPT !.query = q, !.params = Obj(EmptyObj)]

\* Mutant of ContextRead: the error list is read from the validator when
\* the error is handled.
ContextReadShared(err, errors) == errors

\* err.context as the terminal error handler reads it: the list the
\* ValidationError was constructed with.
ContextRead(err, errors) == err.context

InitShared ==
    /\ IdleChain
    /\ IdlePaths

\* A request arrives, for the plain route (Get) or for the async one
\* (AsyncGet) declaring the same parameters.
Arrive ==
    /\ Len(shared.reqs) < MaxConcurrent
    /\ \E q \in SharedQueryValues, a \in BOOLEAN :
         shared' = [shared EXCEPT !.reqs =
                      Append(@, [pc |-> "received", req |-> SharedRequest(q),
                                 async |-> a, err |-> NoError,
                                 seen |-> <<>>])]
    /\ UNCHANGED <<chainVars, pathVars, call>>

\* The validator handler runs for request i, inside AsyncWrapper on the
\* async route: valid(req.query) leaves its errors on the validator, and
\* the runtime takes the one signal of the handler, next() or an error.
ValidateShared ==
    /\ \E i \in DOMAIN shared.reqs :
         /\ shared.reqs[i].pc = "received"
         /\ LET r == shared.reqs[i].req
                res == validateHandlerCall(SharedValidator, r)
                out == IF shared.reqs[i].async THEN AsyncWrapper(res) ELSE res
                signal == Continuations(1, out)[1].err
            IN shared' =
                 [errors |-> AjvErrors(SharedValidator.schema,
                                       ReqField(r, SharedValidator.whereIn)),
                  reqs |-> [shared.reqs EXCEPT
                              ![i].pc = IF signal # NoError THEN "rejected"
                                        ELSE "passed",
                              ![i].err = signal]]
    /\ UNCHANGED <<chainVars, pathVars, call>>

\* The terminal error handler reads the context of the error of request i.
Report ==
    /\ \E i \in DOMAIN shared.reqs :
         /\ shared.reqs[i].pc = "rejected"
         /\ shared' = [shared EXCEPT
                         !.reqs[i].pc = "reported",
                         !.reqs[i].seen =
                             ContextRead(shared.reqs[i].err, shared.errors)]
    /\ UNCHANGED <<chainVars, pathVars, call>>

NextShared ==
    \/ Arrive
    \/ ValidateShared
    \/ Report

SpecShared == InitShared /\ [][NextShared]_vars

\* The errors of validating the input of request i itself.
OwnErrors(i) ==
    AjvErrors(SharedValidator.schema,
              ReqField(shared.reqs[i].req, SharedValidator.whereIn))

AuthFields == {"security", "scope", "responses"}

\* C31: each application of AuthPathOp returns a path object with the
\* method it was given, whose operation has the fields of the operation
\* given and, in every field other than security, scope and responses
\* (tags, description, parameters, requestBody, wrapper, middleware), the
\* value the operation given has.
C31_AuthPathOpFrame ==
    call.fn = "AuthPathOp" =>
        \A k \in DOMAIN call.ret :
            LET before == IF k = 1 THEN call.arg.pop ELSE call.ret[k - 1]
                after == call.ret[k]
            IN /\ after.method = before.method
               /\ DOMAIN after.op = DOMAIN before.op
               /\ \A f \in DOMAIN before.op \ AuthFields :
                    after.op[f] = before.op[f]

\* An asynchronous post operation with three parameters, a JSON request
\* body and two application handlers, decorated with the key binding: the
\* three assigned fields changed and the others are as given.
C31_Witness ==
    /\ call.fn = "AuthPathOp"
    /\ Len(call.arg.scopes) = 1
    /\ call.arg.scopes[1] = Scope(SecKey, <<"admin">>)
    /\ call.arg.pop.method = "post"
    /\ call.arg.pop.op.wrapper = "AsyncWrapper"
    /\ Len(call.arg.pop.op.parameters) = 3
    /\ call.arg.pop.op.requestBody = JsonBody
    /\ Len(call.arg.pop.op.middleware) = 2
    /\ call.ret[1].method = "post"
    /\ call.ret[1].op.security # call.arg.pop.op.security
    /\ call.ret[1].op.scope # call.arg.pop.op.scope
    /\ call.ret[1].op.responses # call.arg.pop.op.responses
    /\ call.ret[1].op.middleware = call.arg.pop.op.middleware
    /\ call.ret[1].op.parameters = call.arg.pop.op.parameters
    /\ call.ret[1].op.wrapper = "AsyncWrapper"

\* The number of characters of t ahead of its first named segment (all of
\* them when t has none).
RECURSIVE Unnamed(_)
Unnamed(t) ==
    IF t = <<>> THEN 0
    ELSE IF Head(t) = ":" /\ WordPrefix(Tail(t)) # <<>> THEN 0
    ELSE 1 + Unnamed(Tail(t))

\* C32: the characters of prefix + template ahead of the first named
\* segment, parenthesised groups among them, are the first characters of
\* the documentation key, unchanged; with no named segment the key is
\* prefix + template.
C32_OtherCharactersKept ==
    call.fn = "pathKey" =>
        LET t == call.arg.prefix \o call.arg.k
            n == Unnamed(t)
        IN /\ Len(call.ret) >= n
           /\ SubSeq(call.ret, 1, n) = SubSeq(t, 1, n)

\* The request sub-objects the handlers of a validator list read, in order.
Locations(hs) == [i \in DOMAIN hs |-> hs[i].whereIn]

\* The parameter lists that declare the parameters of s in some order.
Reordered(s) ==
    {t \in AllParameterLists :
        /\ Len(t) = Len(s)
        /\ {t[i] : i \in DOMAIN t} = {s[i] : i \in DOMAIN s}}

\* C33: the handlers validate returns for a parameter list read their
\* locations in the same order as the handlers it returns for the same
\* parameters declared in any other order.
C33_LocationOrderFixed ==
    call.fn = "validate" =>
        \A t \in Reordered(call.arg.s) :
            Locations(validate(t).handlers) = Locations(call.ret.handlers)

====
